---------------------------- MODULE Spec2Model ----------------------------
(***************************************************************************)
(* A model of prognest (src/src/lib.rs): Progress<T, I> nodes that share   *)
(* one tokio watch channel holding the absolute progress total.            *)
(*                                                                         *)
(* The generic code is modelled at the instantiation T = i16, with the     *)
(* internal type I of each node one of i16, i32 and u16 (allocate_fraction *)
(* is generic over the child's internal type K).  Arithmetic overflow is   *)
(* inherited from the numeric type and is not defined by the library: an   *)
(* operation is enabled only for inputs whose intermediate results fit     *)
(* their type.  The `unwrap`s and the divisions of the code are modelled:  *)
(* a panic is recorded in `failed` and ends the run.                       *)
(*                                                                         *)
(* send_modify (watch::Sender) takes the channel's write lock, lets the    *)
(* closure update the value in place, bumps the version and releases the   *)
(* lock; borrow_and_update (watch::Receiver) takes the read lock, marks    *)
(* the current version as seen and returns the value.                      *)
(***************************************************************************)
EXTENDS Integers, Sequences, FiniteSets

(* ------------------------------ bounds --------------------------------- *)

\* Spec, one calling thread: nodes ever created (the root included), readers
\* ever subscribed, calls of advance / advance_mul / advance_raw
MaxNodes == 2
MaxReaders == 1
MaxSends == 2

\* SpecConc, concurrent callers: the same, and the calling threads
ConcNodes == 2
ConcReaders == 2
ConcSends == 2
ConcThreads == 2

(* ------------------------- numeric types ------------------------------- *)

I16Min == -32768
I16Max == 32767
U16Max == 65535
I32Max == 2147483647

\* the absolute type T of the channel
TType == "i16"

Types == {"i16", "i32", "u16"}

\* the internal types K given to allocate_fraction
ChildTypes == {"i32", "u16"}

Lo(ty) == CASE ty = "i16" -> I16Min
            [] ty = "u16" -> 0
            [] OTHER      -> -I32Max - 1

Hi(ty) == CASE ty = "i16" -> I16Max
            [] ty = "u16" -> U16Max
            [] OTHER      -> I32Max

Fits(x, ty) == Lo(ty) <= x /\ x <= Hi(ty)

Abs(x) == IF x < 0 THEN -x ELSE x

\* Rust's integer `/` and `%` truncate toward zero
TruncDiv(a, b) ==
    LET q == Abs(a) \div Abs(b)
    IN  IF (a < 0) = (b < 0) THEN q ELSE -q

TruncRem(a, b) == a - b * TruncDiv(a, b)

\* a + b and a * b stay inside ty (decided without leaving the 32-bit range)
AddFits(a, b, ty) == Fits(a + b, ty)

MulFits(a, b, ty) ==
    \/ a = 0
    \/ b = 0
    \/ /\ Abs(a) <= I32Max \div Abs(b)
       /\ Fits(a * b, ty)

(* ------------------------------ inputs --------------------------------- *)

\* the sum of |delta| over all sends of a run: keeps the total inside T
MaxTotal == 20000

\* Progress::new(allocation)
RootAllocs == {5, 10000}
\* allocate(allocation)
Allocs == {-1, 6, 5000}
\* allocate_fraction(fraction)
Fractions == {-2, 0, 1, 2}
\* set_internal(internal)
Internals == {4, 10000}
\* advance(progress), advance_mul(progress)
Progs == {-1, 2, 5000}
\* advance_raw(progress)
Raws == {-1, 2, 5000}

(* ------------------------------- state --------------------------------- *)

VARIABLES
    nodes,      \* the Progress values ever created, in creation order
    total,      \* the value held by the watch channel
    version,    \* the channel's version, bumped by every send_modify
    lock,       \* 0, or the thread holding the channel's write lock
    readers,    \* the Receivers ever subscribed
    thr,        \* per thread: where it is inside advance_raw
    failed,     \* the panic that ended the run, NoFailure while it runs
    sends,      \* calls of advance / advance_mul / advance_raw so far
    raws,       \* those of them that are the caller's own advance_raw
    volume,     \* sum of |delta| over those calls
    issued,     \* sum of the deltas handed to advance_raw
    applied,    \* sum of the deltas whose send_modify has completed
    contended   \* some call found another thread inside advance_raw

vars == <<nodes, total, version, lock, readers, thr, failed, sends, raws,
          volume, issued, applied, contended>>

\* the history of the calls, which no node operation but a send changes
calls == <<sends, raws, volume, issued, contended>>

\* Default::default() of the integer types
Default == 0

\* Progress::with_internal: the fields of the struct, then the history of the
\* node (parent, frac: how it was allocated; reported, pushed: the increments
\* given to advance and the deltas it produced; advs: its advance calls;
\* fixedM: set_internal was not called after the first advance; nonneg: no
\* increment was negative).
with_internal(allocation, internal, ity, parent, frac) ==
    [ alive      |-> TRUE,
      allocation |-> allocation,
      internal   |-> internal,
      unaccounted |-> Default,
      ity        |-> ity,
      parent     |-> parent,
      frac       |-> frac,
      reported   |-> 0,
      pushed     |-> 0,
      advs       |-> 0,
      fixedM     |-> TRUE,
      nonneg     |-> TRUE ]

NoFailure == [cause |-> "none", node |-> 0, arg |-> 0]

\* a panic of an operation called on node n with argument arg
Panic(cause, n, arg) == [cause |-> cause, node |-> n, arg |-> arg]

IdleThread == [pc |-> "idle", node |-> 0, mutb |-> FALSE, delta |-> 0, old |-> 0]

Threads == DOMAIN thr

\* Progress::new: a fresh channel holding Default, and the root node
new(allocations, threads) ==
    /\ \E a \in allocations :
          nodes = << with_internal(a, Default, TType, 0, 0) >>
    /\ total = Default
    /\ version = 0
    /\ lock = 0
    /\ readers = << >>
    /\ thr = [t \in threads |-> IdleThread]
    /\ failed = NoFailure
    /\ sends = 0
    /\ raws = 0
    /\ volume = 0
    /\ issued = 0
    /\ applied = 0
    /\ contended = FALSE

Alive == {n \in 1..Len(nodes) : nodes[n].alive}

\* threads inside advance_raw on node n (they hold a borrow of it)
Borrowers(n) == {t \in Threads : thr[t].pc # "idle" /\ thr[t].node = n}

\* `&mut self`: no other borrow of the node is live
Exclusive(n) == n \in Alive /\ Borrowers(n) = {}

\* `&self`: no `&mut` borrow of the node is live
Shared(n) == n \in Alive /\ \A o \in Borrowers(n) : ~thr[o].mutb

Running == failed = NoFailure

(* --------------------------- node operations --------------------------- *)

\* a variant whose child starts from the parent's internal maximum
allocate_inheriting(n, a) ==
    /\ Running
    /\ Shared(n)
    /\ nodes' = Append(nodes,
          with_internal(a, nodes[n].internal, nodes[n].ity, n, 0))
    /\ UNCHANGED <<total, version, lock, readers, thr, failed, calls, applied>>

\* allocate(&self, allocation): a node on the same channel; the internal
\* type, not the internal value, is the parent's
allocate(n, a) ==
    /\ Running
    /\ Shared(n)
    /\ nodes' = Append(nodes, with_internal(a, Default, nodes[n].ity, n, 0))
    /\ UNCHANGED <<total, version, lock, readers, thr, failed, calls, applied>>

\* allocate_fraction(&self, fraction): allocation / fraction in T, which
\* panics on a zero fraction; K is the child's internal type
allocate_fraction(n, f, K) ==
    /\ Running
    /\ Shared(n)
    /\ IF f = 0
          THEN /\ failed' = Panic("allocate_fraction: division by zero", n, f)
               /\ UNCHANGED nodes
          ELSE /\ nodes' = Append(nodes,
                      with_internal(TruncDiv(nodes[n].allocation, f),
                                    Default, K, n, f))
               /\ UNCHANGED failed
    /\ UNCHANGED <<total, version, lock, readers, thr, calls, applied>>

\* a variant that starts the remainder afresh
set_internal_resetting(n, m) ==
    /\ Running
    /\ Exclusive(n)
    /\ Fits(m, nodes[n].ity)
    /\ nodes' = [nodes EXCEPT ![n].internal = m,
                              ![n].unaccounted = Default,
                              ![n].fixedM = @ /\ nodes[n].advs = 0]
    /\ UNCHANGED <<total, version, lock, readers, thr, failed, calls, applied>>

\* set_internal(&mut self, internal)
set_internal(n, m) ==
    /\ Running
    /\ Exclusive(n)
    /\ Fits(m, nodes[n].ity)
    /\ nodes' = [nodes EXCEPT ![n].internal = m,
                              ![n].fixedM = @ /\ nodes[n].advs = 0]
    /\ UNCHANGED <<total, version, lock, readers, thr, failed, calls, applied>>

\* what is left of a dropped node: nothing but its place in `nodes`
Gone ==
    [ alive       |-> FALSE,
      allocation  |-> 0,
      internal    |-> 0,
      unaccounted |-> 0,
      ity         |-> TType,
      parent      |-> 0,
      frac        |-> 0,
      reported    |-> 0,
      pushed      |-> 0,
      advs        |-> 0,
      fixedM      |-> TRUE,
      nonneg      |-> TRUE ]

\* a variant that tells the readers of the end of a node
drop_notifying(n) ==
    /\ Running
    /\ Exclusive(n)
    /\ nodes' = [nodes EXCEPT ![n] = Gone]
    /\ version' = version + 1
    /\ UNCHANGED <<total, lock, readers, thr, failed, calls, applied>>

\* a Progress value goes out of scope
drop(n) ==
    /\ Running
    /\ Exclusive(n)
    /\ nodes' = [nodes EXCEPT ![n] = Gone]
    /\ UNCHANGED <<total, version, lock, readers, thr, failed, calls, applied>>

(* ------------------------------ advance -------------------------------- *)

\* progress.add(self.unaccounted).mul(self.allocation)
intermediate(progress, unaccounted, allocation) ==
    (progress + unaccounted) * allocation

\* intermediate.div(self.internal)
prog(im, internal) == TruncDiv(im, internal)

\* a variant that drops what the division truncated
unaccounted_dropped(im, internal) == 0

\* a variant that keeps the whole scaled value
unaccounted_whole(im, internal) == im

\* intermediate.rem(self.internal)
unaccounted(im, internal) == TruncRem(im, internal)

Outcome(kind, delta, rest) == [kind |-> kind, delta |-> delta, rest |-> rest]

\* try_into().ok(): Some exactly when the value is one of the target type
converts(x, ty) == Fits(x, ty)

\* the statements of advance(progress) on node nd up to the write of
\* self.unaccounted: "ok" with the delta and the new remainder, a panic, or
\* "overflow" when an intermediate result leaves the internal type
advance_body(nd, progress) ==
    LET ty == nd.ity
        u  == nd.unaccounted
    IN  IF ~AddFits(progress, u, ty)
          THEN Outcome("overflow", 0, 0)
        ELSE IF ~converts(nd.allocation, ty)
          THEN Outcome("advance: allocation does not convert", 0, 0)
        ELSE IF ~MulFits(progress + u, nd.allocation, ty)
          THEN Outcome("overflow", 0, 0)
        ELSE LET im == intermediate(progress, u, nd.allocation)
             IN  IF nd.internal = 0
                   THEN Outcome("advance: division by zero", 0, 0)
                 ELSE IF ~converts(prog(im, nd.internal), TType)
                   THEN Outcome("advance: delta does not convert", 0, 0)
                 ELSE Outcome("ok", prog(im, nd.internal),
                              unaccounted(im, nd.internal))

\* a variant that keeps a node inside its allocation: the delta is cut to
\* what the node has left
advance_clamping(nd, progress) ==
    LET o == advance_body(nd, progress)
    IN  IF o.kind = "ok" /\ nd.pushed + o.delta > nd.allocation
          THEN Outcome("ok", nd.allocation - nd.pushed, o.rest)
          ELSE o

\* a variant that rejects progress past the internal maximum
advance_asserting(nd, progress) ==
    IF nd.reported + progress > nd.internal
      THEN Outcome("advance: progress exceeds the internal maximum", 0, 0)
      ELSE advance_body(nd, progress)

\* what advance(progress) does on node nd
advance_outcome(nd, progress) == advance_body(nd, progress)

\* a variant that divides before it multiplies
advance_mul_dividing(nd, progress) ==
    LET ty == nd.ity
        u  == nd.unaccounted
    IN  IF ~AddFits(progress, u, ty)
          THEN Outcome("overflow", 0, 0)
        ELSE IF nd.internal = 0
          THEN Outcome("advance_mul: division by zero", 0, 0)
        ELSE IF ~MulFits(TruncDiv(progress + u, nd.internal), nd.allocation, ty)
          THEN Outcome("overflow", 0, 0)
        ELSE Outcome("ok",
                     TruncDiv(progress + u, nd.internal) * nd.allocation,
                     TruncRem(progress + u, nd.internal))

\* the same for advance_mul(progress), which multiplies by the allocation in
\* its own type and converts nothing
advance_mul_outcome(nd, progress) ==
    LET ty == nd.ity
        u  == nd.unaccounted
    IN  IF \/ ~AddFits(progress, u, ty)
           \/ ~MulFits(progress + u, nd.allocation, ty)
          THEN Outcome("overflow", 0, 0)
        ELSE LET im == intermediate(progress, u, nd.allocation)
             IN  IF nd.internal = 0
                   THEN Outcome("advance_mul: division by zero", 0, 0)
                 ELSE Outcome("ok", prog(im, nd.internal),
                              unaccounted(im, nd.internal))

\* the deltas of a run keep the total inside T
Budget(delta) == volume + Abs(delta) <= MaxTotal

\* the calling thread: threads are interchangeable, the first idle one calls
Caller(t) ==
    /\ thr[t].pc = "idle"
    /\ \A o \in Threads : o < t => thr[o].pc # "idle"

\* entry of advance_raw(&self, progress): thread t is about to call
\* send_modify with this delta
call_send(t, n, mutb, delta) ==
    /\ thr' = [thr EXCEPT ![t] = [pc |-> "send", node |-> n, mutb |-> mutb,
                                  delta |-> delta, old |-> 0]]
    /\ sends' = sends + 1
    /\ raws' = IF mutb THEN raws ELSE raws + 1
    /\ volume' = volume + Abs(delta)
    /\ issued' = issued + delta
    /\ contended' = (contended \/ \E o \in Threads : thr[o].pc # "idle")

\* a variant that also clears the remainder of the node
advance_raw_clearing(t, n, d) ==
    /\ Running
    /\ Caller(t)
    /\ Shared(n)
    /\ Budget(d)
    /\ call_send(t, n, FALSE, d)
    /\ nodes' = [nodes EXCEPT ![n].unaccounted = Default]
    /\ UNCHANGED <<total, version, lock, readers, failed, applied>>

\* advance_raw(&self, progress) up to send_modify
advance_raw(t, n, d) ==
    /\ Running
    /\ Caller(t)
    /\ Shared(n)
    /\ Budget(d)
    /\ call_send(t, n, FALSE, d)
    /\ UNCHANGED <<nodes, total, version, lock, readers, failed, applied>>

\* a variant that takes the delta out of what the node has left
advance_with_consuming(t, n, progress, out) ==
    /\ Running
    /\ Caller(t)
    /\ Exclusive(n)
    /\ Fits(progress, nodes[n].ity)
    /\ out.kind # "overflow"
    /\ IF out.kind # "ok"
          THEN /\ failed' = Panic(out.kind, n, progress)
               /\ UNCHANGED <<nodes, thr, calls>>
          ELSE /\ Budget(out.delta)
               /\ nodes' = [nodes EXCEPT
                     ![n].allocation = @ - out.delta,
                     ![n].unaccounted = out.rest,
                     ![n].reported = @ + progress,
                     ![n].pushed = @ + out.delta,
                     ![n].advs = @ + 1,
                     ![n].nonneg = @ /\ progress >= 0]
               /\ call_send(t, n, TRUE, out.delta)
               /\ UNCHANGED failed
    /\ UNCHANGED <<total, version, lock, readers, applied>>

\* a variant that stores the folded increment before it divides
advance_with_storing(t, n, progress, out) ==
    /\ Running
    /\ Caller(t)
    /\ Exclusive(n)
    /\ Fits(progress, nodes[n].ity)
    /\ out.kind # "overflow"
    /\ IF out.kind # "ok"
          THEN /\ failed' = Panic(out.kind, n, progress)
               /\ nodes' = [nodes EXCEPT ![n].unaccounted = @ + progress]
               /\ UNCHANGED <<thr, calls>>
          ELSE /\ Budget(out.delta)
               /\ nodes' = [nodes EXCEPT
                     ![n].unaccounted = out.rest,
                     ![n].reported = @ + progress,
                     ![n].pushed = @ + out.delta,
                     ![n].advs = @ + 1,
                     ![n].nonneg = @ /\ progress >= 0]
               /\ call_send(t, n, TRUE, out.delta)
               /\ UNCHANGED failed
    /\ UNCHANGED <<total, version, lock, readers, applied>>

\* the body shared by advance and advance_mul: panic before any write, or
\* store the remainder and call advance_raw with the delta
advance_with(t, n, progress, out) ==
    /\ Running
    /\ Caller(t)
    /\ Exclusive(n)
    /\ Fits(progress, nodes[n].ity)
    /\ out.kind # "overflow"
    /\ IF out.kind # "ok"
          THEN /\ failed' = Panic(out.kind, n, progress)
               /\ UNCHANGED <<nodes, thr, calls>>
          ELSE /\ Budget(out.delta)
               /\ nodes' = [nodes EXCEPT
                     ![n].unaccounted = out.rest,
                     ![n].reported = @ + progress,
                     ![n].pushed = @ + out.delta,
                     ![n].advs = @ + 1,
                     ![n].nonneg = @ /\ progress >= 0]
               /\ call_send(t, n, TRUE, out.delta)
               /\ UNCHANGED failed
    /\ UNCHANGED <<total, version, lock, readers, applied>>

\* advance(&mut self, progress)
advance(t, n, progress) ==
    advance_with(t, n, progress, advance_outcome(nodes[n], progress))

\* advance_mul(&mut self, progress): the std integers multiply only by their
\* own type, so the node's internal type is T
advance_mul(t, n, progress) ==
    /\ n \in Alive
    /\ nodes[n].ity = TType
    /\ advance_with(t, n, progress, advance_mul_outcome(nodes[n], progress))

(* ---------------------------- the channel ------------------------------ *)

\* a variant without mutual exclusion of the writers
NoWriteLock == TRUE

\* send_modify runs its closure under the channel's write lock
WriteLockFree == lock = 0

\* a variant that subtracts
sub_assign(s, progress) == s - progress

\* a variant that assigns instead of adding
assign(s, progress) == progress

\* the closure of advance_raw: s.add_assign(progress)
add_assign(s, progress) == s + progress

\* a variant that leaves the version alone
bump_none(v) == v

\* send_modify bumps the version after the closure
bump(v) == v + 1

\* send_modify, first half: thread t takes the write lock and the closure
\* reads the value
send_enter(t) ==
    /\ Running
    /\ thr[t].pc = "send"
    /\ WriteLockFree
    /\ lock' = t
    /\ thr' = [thr EXCEPT ![t].pc = "locked", ![t].old = total]
    /\ UNCHANGED <<nodes, total, version, readers, failed, calls, applied>>

\* what a completed add leaves in the history of a reader
Missed(r, delta) == [r EXCEPT !.missed = @ + 1, !.acc = @ + delta]

\* a variant that returns from send_modify with the write lock still held
send_exit_holding(t) ==
    /\ Running
    /\ thr[t].pc = "locked"
    /\ total' = add_assign(thr[t].old, thr[t].delta)
    /\ version' = bump(version)
    /\ lock' = lock
    /\ applied' = applied + thr[t].delta
    /\ readers' = [i \in 1..Len(readers) |-> Missed(readers[i], thr[t].delta)]
    /\ thr' = [thr EXCEPT ![t] = IdleThread]
    /\ UNCHANGED <<nodes, failed, calls>>

\* send_modify, second half: the closure writes the sum, the version is
\* bumped, the lock released; advance_raw returns
send_exit(t) ==
    /\ Running
    /\ thr[t].pc = "locked"
    /\ total' = add_assign(thr[t].old, thr[t].delta)
    /\ version' = bump(version)
    /\ lock' = 0
    /\ applied' = applied + thr[t].delta
    /\ readers' = [i \in 1..Len(readers) |-> Missed(readers[i], thr[t].delta)]
    /\ thr' = [thr EXCEPT ![t] = IdleThread]
    /\ UNCHANGED <<nodes, failed, calls>>

\* a variant whose Receiver has not seen the current version
subscribe_unseen == version - 1

\* the version a new Receiver holds as seen
subscribe_version == version

\* subscribe(&self): a Receiver on the channel.  version, value, has_changed
\* are the Receiver and the Ref of its last borrow_and_update; the rest is its
\* history (born: the channel version at subscription; reads: 0, 1, or 2 for
\* more; missed, acc: the adds completed since its last read and their sum;
\* covered, gain: the same for the adds its last read covered; prev: the
\* value before them).
subscribe(n) ==
    /\ Running
    /\ Shared(n)
    /\ readers' = Append(readers,
          [ version     |-> subscribe_version,
            value       |-> Default,
            has_changed |-> FALSE,
            born        |-> version,
            reads       |-> 0,
            missed      |-> 0,
            acc         |-> 0,
            covered     |-> 0,
            gain        |-> 0,
            base        |-> total,
            prev        |-> total ])
    /\ UNCHANGED <<nodes, total, version, lock, thr, failed, calls, applied>>

\* a variant that expects one notification per add
has_changed_next(r) == r.version + 1 = version

\* Ref::has_changed of borrow_and_update: the version differs from the seen
has_changed(r) == r.version # version

\* Receiver::borrow_and_update: under the read lock, return the value and
\* mark the current version as seen
borrow_and_update(i) ==
    /\ Running
    /\ i \in 1..Len(readers)
    /\ lock = 0
    /\ readers' = [readers EXCEPT ![i] =
          [ version     |-> version,
            value       |-> total,
            has_changed |-> has_changed(readers[i]),
            born        |-> readers[i].born,
            reads       |-> IF readers[i].reads = 0 THEN 1 ELSE 2,
            missed      |-> 0,
            acc         |-> 0,
            covered     |-> readers[i].missed,
            gain        |-> readers[i].acc,
            base        |-> total,
            prev        |-> readers[i].base ]]
    /\ UNCHANGED <<nodes, total, version, lock, thr, failed, calls, applied>>

(* -------------------------- the specifications ------------------------- *)

\* no thread is inside advance_raw
Idle == \A t \in Threads : thr[t].pc = "idle"

\* One calling thread: every operation runs to its end before the next one
\* starts.
Init == new(RootAllocs, {1})

Next ==
    \/ \E n \in 1..Len(nodes), a \in Allocs :
          Idle /\ Len(nodes) < MaxNodes /\ allocate(n, a)
    \/ \E n \in 1..Len(nodes), f \in Fractions, K \in ChildTypes :
          Idle /\ Len(nodes) < MaxNodes /\ allocate_fraction(n, f, K)
    \/ \E n \in 1..Len(nodes), m \in Internals : Idle /\ set_internal(n, m)
    \/ \E n \in 1..Len(nodes) : Idle /\ drop(n)
    \/ \E n \in 1..Len(nodes) :
          Idle /\ Len(readers) < MaxReaders /\ subscribe(n)
    \/ \E t \in Threads, n \in 1..Len(nodes), d \in Raws :
          sends < MaxSends /\ advance_raw(t, n, d)
    \/ \E t \in Threads, n \in 1..Len(nodes), p \in Progs :
          sends < MaxSends /\ advance(t, n, p)
    \/ \E t \in Threads, n \in 1..Len(nodes), p \in Progs :
          sends < MaxSends /\ advance_mul(t, n, p)
    \/ \E t \in Threads : send_enter(t)
    \/ \E t \in Threads : send_exit(t)
    \/ \E i \in 1..Len(readers) : Idle /\ borrow_and_update(i)

Spec == Init /\ [][Next]_vars

\* Concurrent callers: the operations of different threads interleave at the
\* channel's lock.
ConcRootAllocs == {5}
ConcAllocs == {6}
ConcFractions == {2}
ConcTypes == {"i32"}
ConcInternals == {4}
ConcProgs == {2}
ConcRaws == {0, 2}

InitConc == new(ConcRootAllocs, 1..ConcThreads)

NextConc ==
    \/ \E n \in 1..Len(nodes), a \in ConcAllocs :
          Len(nodes) < ConcNodes /\ allocate(n, a)
    \/ \E n \in 1..Len(nodes), f \in ConcFractions, K \in ConcTypes :
          Len(nodes) < ConcNodes /\ allocate_fraction(n, f, K)
    \/ \E n \in 1..Len(nodes), m \in ConcInternals : set_internal(n, m)
    \/ \E n \in 1..Len(nodes) : drop(n)
    \/ \E n \in 1..Len(nodes) : Len(readers) < ConcReaders /\ subscribe(n)
    \/ \E t \in Threads, n \in 1..Len(nodes), d \in ConcRaws :
          sends < ConcSends /\ advance_raw(t, n, d)
    \/ \E t \in Threads, n \in 1..Len(nodes), p \in ConcProgs :
          sends < ConcSends /\ advance(t, n, p)
    \/ \E t \in Threads, n \in 1..Len(nodes), p \in ConcProgs :
          sends < ConcSends /\ advance_mul(t, n, p)
    \/ \E t \in Threads : send_enter(t)
    \/ \E t \in Threads : send_exit(t)
    \/ \E i \in 1..Len(readers) : borrow_and_update(i)

SpecConc == InitConc /\ [][NextConc]_vars

\* The same with the scheduling the threads give: a thread inside advance_raw
\* goes on (send_modify blocks only while another writer holds the lock), and
\* the loop of a reader thread reads again.
Fairness ==
    /\ \A t \in 1..ConcThreads :
          WF_vars(send_enter(t)) /\ WF_vars(send_exit(t))
    /\ \A i \in 1..ConcReaders : WF_vars(borrow_and_update(i))

SpecLive == SpecConc /\ Fairness

(* ------------------------------- claims -------------------------------- *)

Nodes == 1..Len(nodes)

\* the node has only been advanced by non-negative increments against one
\* positive internal maximum, starting from unaccounted = 0
Steady(nd) == nd.alive /\ nd.fixedM /\ nd.nonneg /\ nd.internal > 0

\* C1: on a node with fixed allocation A and internal_max M > 0, after any
\* sequence of advances by non-negative increments, (sum of the deltas
\* pushed) * M + unaccounted = (sum of the increments) * A.
C1_RemainderConservation ==
    \A n \in Nodes :
        Steady(nodes[n]) =>
            nodes[n].pushed * nodes[n].internal + nodes[n].unaccounted
                = nodes[n].reported * nodes[n].allocation

\* C3: one advance(p) from unaccounted = 0 on a node with allocation A and
\* internal_max M > 0 pushes floor(p * A / M) and leaves (p * A) mod M.
C3_SingleStepFloor ==
    \A n \in Nodes :
        LET nd == nodes[n]
            pa == nd.reported * nd.allocation
        IN  (nd.alive /\ nd.advs = 1 /\ nd.fixedM /\ nd.internal > 0) =>
                /\ nd.pushed = pa \div nd.internal
                /\ nd.unaccounted = pa % nd.internal

\* C3, amended: the same for p * A >= 0; for p * A < 0 the division truncates
\* toward zero, so the delta is -floor(|p * A| / M) and the remainder
\* -(|p * A| mod M).  The first send of a run moves the total from 0 to the
\* delta, and the documented example (8000, 10000, 5000) gives 4000.
C3_SingleStepTrunc ==
    /\ \A n \in Nodes :
        LET nd == nodes[n]
            pa == nd.reported * nd.allocation
        IN  (nd.alive /\ nd.advs = 1 /\ nd.fixedM /\ nd.internal > 0) =>
                /\ pa >= 0 =>
                      /\ nd.pushed = pa \div nd.internal
                      /\ nd.unaccounted = pa % nd.internal
                /\ pa < 0 =>
                      /\ nd.pushed = -((-pa) \div nd.internal)
                      /\ nd.unaccounted = -((-pa) % nd.internal)
                /\ (sends = 1 /\ Idle) => total = nd.pushed
    /\ prog(intermediate(5000, Default, 8000), 10000) = 4000
    /\ unaccounted(intermediate(5000, Default, 8000), 10000) = 0

\* a single advance has left a remainder, and its delta is in the total
C3_Witness ==
    \E n \in Nodes :
        /\ nodes[n].alive /\ nodes[n].advs = 1 /\ nodes[n].fixedM
        /\ nodes[n].reported = 2 /\ nodes[n].allocation = 5
        /\ nodes[n].internal = 4
        /\ nodes[n].pushed = 2 /\ nodes[n].unaccounted = 2
        /\ sends = 1 /\ Idle /\ total = 2

RECURSIVE SumPushed(_)
SumPushed(S) ==
    IF S = {} THEN 0
    ELSE LET n == CHOOSE x \in S : TRUE
         IN  nodes[n].pushed + SumPushed(S \ {n})

\* the children allocate_fraction(N) gave node q
FractionChildren(q, N) ==
    {n \in Nodes : nodes[n].alive /\ nodes[n].parent = q /\ nodes[n].frac = N}

\* the node was driven to 100% of its internal maximum
Complete(nd) == Steady(nd) /\ nd.advs >= 1 /\ nd.reported = nd.internal

\* C4: when allocate_fraction(N) was called N times on a node with allocation
\* A and every child was driven to 100% by advances whose increments sum to
\* its internal_max, the deltas the children pushed differ from A by at most N.
C4_SubdivisionClose ==
    \A q \in Nodes, N \in 1..MaxNodes :
        LET S == FractionChildren(q, N)
        IN  (/\ nodes[q].alive
             /\ Cardinality(S) = N
             /\ \A c \in S : Complete(nodes[c]))
            => Abs(SumPushed(S) - nodes[q].allocation) <= N

\* the delta of the advance that the step performs on node n: what the code
\* computes from the increment, the remainder, the allocation and the
\* internal maximum it finds
StepDelta(n) ==
    TruncDiv((nodes'[n].reported - nodes[n].reported + nodes[n].unaccounted)
                 * nodes[n].allocation,
             nodes[n].internal)

\* the step is a successful advance or advance_mul on node n
Advanced(n) == n \in Nodes /\ nodes[n].alive /\ nodes'[n].advs = nodes[n].advs + 1

\* C5: nothing is bounded: an advance past internal_max still completes and
\* hands its full computed delta to the total, which is added unclamped (so
\* the total may pass the root allocation), and allocate gives the child the
\* allocation asked for, whatever the parent's.
C5_NoBoundsEnforced ==
    [][ /\ \A n \in Nodes :
              Advanced(n) =>
                  /\ failed' = NoFailure
                  /\ nodes'[n].pushed = nodes[n].pushed + StepDelta(n)
                  /\ issued' = issued + StepDelta(n)
        /\ \A t \in Threads :
              (thr[t].pc = "locked" /\ thr'[t].pc = "idle") =>
                  total' = total + thr[t].delta
        /\ Len(nodes') > Len(nodes) =>
              /\ failed' = NoFailure
              /\ nodes'[Len(nodes')].frac = 0 =>
                    nodes'[Len(nodes')].allocation \in Allocs
      ]_vars

\* a child allocated more than its parent has reported more than its
\* internal maximum, and the total is past the root allocation
C5_Witness ==
    /\ Running /\ Idle
    /\ Len(nodes) = 2
    /\ nodes[1].alive /\ nodes[2].alive
    /\ nodes[2].parent = 1
    /\ nodes[2].allocation > nodes[1].allocation
    /\ nodes[2].internal > 0
    /\ nodes[2].reported > nodes[2].internal
    /\ nodes[2].advs = 2
    /\ total > nodes[1].allocation
    /\ total = nodes[2].pushed

\* C7: every operation completes without failing, whatever the node state
\* and the input.
C7_NeverFails == failed = NoFailure

\* the node and the argument that `failed` names explain the panic
Explained ==
    LET nd == nodes[failed.node]
    IN  \/ failed = NoFailure
        \/ /\ failed.cause = "allocate_fraction: division by zero"
           /\ failed.arg = 0
        \/ /\ failed.cause = "advance: allocation does not convert"
           /\ ~Fits(nd.allocation, nd.ity)
        \/ /\ failed.cause = "advance: division by zero"
           /\ Fits(nd.allocation, nd.ity)
           /\ nd.internal = 0
        \/ /\ failed.cause = "advance: delta does not convert"
           /\ Fits(nd.allocation, nd.ity)
           /\ nd.internal # 0
           /\ ~Fits(TruncDiv((failed.arg + nd.unaccounted) * nd.allocation,
                             nd.internal), TType)
        \/ /\ failed.cause = "advance_mul: division by zero"
           /\ nd.internal = 0

\* C7, amended: advance_raw, allocate, set_internal and subscribe never fail.
\* allocate_fraction fails exactly on a zero divisor; advance fails exactly
\* when the allocation does not convert into the internal type, internal_max
\* is 0 or the delta does not convert into the absolute type; advance_mul
\* fails exactly when internal_max is 0 (in each case as long as no
\* intermediate result overflows its integer type).
C7_FailsOnlyAsExplained ==
    [][ /\ Explained'
        /\ \A n \in Nodes :
              Advanced(n) =>
                  /\ failed' = NoFailure
                  /\ nodes[n].internal # 0
                  /\ Fits(nodes[n].allocation, nodes[n].ity)
                  /\ Fits(StepDelta(n), TType)
      ]_vars

\* advance on the node allocate has just returned panics: its internal
\* maximum is still the default
C7_Witness ==
    /\ failed.cause = "advance: division by zero"
    /\ failed.node = 2
    /\ nodes[2].advs = 0
    /\ nodes[2].internal = Default
    /\ total = 0

Readers == 1..Len(readers)

\* C2: advance_raw(d1), ..., advance_raw(dn) on the nodes of a fresh root, in
\* any interleaving: after every completed add the total is the sum of the
\* deltas applied so far, and after all calls it is d1 + ... + dn.
C2_RawAccumulation ==
    raws = sends =>
        /\ total = applied
        /\ Idle => total = issued

\* two raw advances were in flight together; the first is applied, the
\* second holds the lock
C2_Witness ==
    /\ sends = 2 /\ raws = 2
    /\ thr[1].pc = "idle" /\ thr[2].pc = "locked"
    /\ contended
    /\ applied = 2 /\ total = 2
    /\ thr[2].delta = 2

\* C6: concurrent advance / advance_raw calls of distinct nodes lose no
\* delta: the total is the sum of the deltas whose add has completed, after
\* all calls it is the sum of the deltas the calls computed, and a reader that
\* reads after the adds gets that total.
C6_NoLostUpdate ==
    /\ total = applied
    /\ Idle => total = issued
    /\ \A i \in Readers :
          (readers[i].reads >= 1 /\ readers[i].missed = 0) =>
              readers[i].value = total

\* an advance of the child and a raw advance of the root overlapped, both
\* are applied, and a reader has read their sum
C6_Witness ==
    /\ Idle /\ contended
    /\ sends = 2 /\ raws = 1
    /\ Len(nodes) = 2 /\ nodes[2].alive /\ nodes[2].advs = 1
    /\ nodes[2].pushed # 0
    /\ total = nodes[2].pushed + 2
    /\ \E i \in Readers :
          /\ readers[i].reads >= 1 /\ readers[i].missed = 0
          /\ readers[i].value = total

\* C8: a reader from subscribe() starts unseen: its first read reports the
\* current value as changed (0 for a reader created before any update).
C8_StartsUnseen ==
    \A i \in Readers :
        /\ readers[i].reads = 0 => has_changed(readers[i])
        /\ readers[i].reads = 1 => readers[i].has_changed

\* C8, amended: a reader from subscribe() starts seen: its flag is false
\* until an add completes, its first read returns the current value and
\* reports it as changed exactly when an add completed since subscribe(); a
\* reader created and read before any update reads the initial value 0.
C8_StartsSeen ==
    \A i \in Readers :
        LET r == readers[i]
        IN  /\ r.reads = 0 => (has_changed(r) <=> r.missed > 0)
            /\ r.reads = 1 =>
                  /\ r.has_changed <=> r.covered > 0
                  /\ r.value = r.prev + r.gain
            /\ (r.reads = 1 /\ r.born = 0 /\ r.covered = 0) =>
                  r.value = Default

\* a reader subscribed before any update has read 0, reported as unchanged,
\* and another, subscribed at the same time, has read the first add as changed
C8_Witness ==
    /\ Len(readers) = 2
    /\ readers[1].born = 0 /\ readers[1].reads = 1 /\ readers[1].covered = 0
    /\ readers[1].value = 0 /\ ~readers[1].has_changed
    /\ readers[2].born = 0 /\ readers[2].reads = 1 /\ readers[2].covered = 1
    /\ readers[2].value = 2 /\ readers[2].has_changed

\* C9: after a read the reader's flag is false until the next add, every add
\* sets the flag of every reader, and a read of one reader leaves the flag of
\* the others alone.
C9_FlagUntilNextAdd ==
    \A i \in Readers :
        readers[i].reads >= 1 =>
            (has_changed(readers[i]) <=> readers[i].missed > 0)

\* both readers were flagged by an add; the first has read it, the second
\* still holds its flag
C9_Witness ==
    /\ Len(readers) = 2
    /\ readers[1].reads >= 1 /\ readers[1].covered >= 1
    /\ readers[1].missed = 0 /\ ~has_changed(readers[1])
    /\ readers[2].reads >= 1 /\ readers[2].missed >= 1
    /\ has_changed(readers[2])

\* C10: k >= 2 adds between two reads of a reader are seen by the second
\* read as one change carrying their sum; a read returns the value of the
\* latest completed add, and a further read without an add reports nothing.
C10_Coalesce ==
    \A i \in Readers :
        LET r == readers[i]
        IN  /\ (r.reads = 2 /\ r.covered >= 2) =>
                  /\ r.has_changed
                  /\ r.value = r.prev + r.gain
            /\ (r.reads >= 1 /\ r.missed = 0) => r.value = total
            /\ (r.reads = 2 /\ r.covered = 0) =>
                  /\ ~r.has_changed
                  /\ r.value = r.prev

\* two adds came between the first and the second read of a reader
C10_Witness ==
    \E i \in Readers :
        /\ readers[i].reads = 2 /\ readers[i].covered = 2
        /\ readers[i].has_changed
        /\ readers[i].prev = 0 /\ readers[i].gain = 4
        /\ readers[i].value = 4

\* reader i has read, with no add in progress, the sum of all the deltas
\* handed to advance_raw
ReadFinal(i) ==
    /\ i \in Readers
    /\ Idle
    /\ readers[i].reads >= 1
    /\ readers[i].value = issued

\* C11: a read returns the sum of every add completed before it, and once the
\* writers stop adding, a reader that keeps reading obtains the final total,
\* whatever it missed in between (as long as no call has panicked).
C11_EventuallyFinal ==
    /\ [](\A i \in Readers :
            (readers[i].reads >= 1 /\ readers[i].missed = 0) =>
                readers[i].value = applied)
    /\ \A i \in 1..ConcReaders :
          [](i \in Readers => <>(~Running \/ ReadFinal(i)))

\* a reader that read before the first add and not between the two adds has
\* read, after the writers stopped, the sum of both
C11_Witness ==
    \E i \in Readers :
        /\ Running /\ Idle /\ sends = ConcSends
        /\ readers[i].born = 0
        /\ readers[i].reads = 2 /\ readers[i].covered = ConcSends
        /\ readers[i].prev = 0
        /\ issued > 0
        /\ readers[i].value = issued

\* the step is the call of advance_raw by thread t
RawCalled(t) ==
    thr[t].pc = "idle" /\ thr'[t].pc = "send" /\ ~thr'[t].mutb

\* the step is the return of advance_raw to its caller, thread t
RawReturned(t) ==
    thr[t].pc = "locked" /\ thr'[t].pc = "idle" /\ ~thr[t].mutb

\* C12: advance_raw(d) converts nothing and writes no node: the delta it
\* hands to the channel is d, the total grows by exactly d, and every node's
\* allocation, internal_max and unaccounted stay as they are; so the first
\* advance(p) of a node pushes p * A / M whether or not raw advances came
\* before it (A = 5000, M = 10000, p = 5000 pushes 2500).
C12_RawBypasses ==
    /\ [][ \A t \in Threads :
              /\ RawCalled(t) =>
                    /\ nodes' = nodes
                    /\ thr'[t].delta \in Raws
                    /\ issued' = issued + thr'[t].delta
              /\ RawReturned(t) =>
                    /\ nodes' = nodes
                    /\ total' = total + thr[t].delta
          ]_vars
    /\ [](\A n \in Nodes :
            LET nd == nodes[n]
            IN  (raws >= 1 /\ nd.alive /\ nd.advs = 1 /\ nd.fixedM
                   /\ nd.internal # 0) =>
                    /\ nd.pushed =
                          prog(intermediate(nd.reported, Default, nd.allocation),
                               nd.internal)
                    /\ Idle => total = issued)
    /\ prog(intermediate(5000, Default, 5000), 10000) = 2500

\* advance_raw(5000) on the subtask (5000 of 10000) has made the total 5000,
\* and the advance(5000) that follows it is about to add 2500
C12_Witness ==
    /\ Len(nodes) = 2 /\ nodes[2].alive
    /\ nodes[1].allocation = 10000
    /\ nodes[2].allocation = 5000 /\ nodes[2].internal = 10000
    /\ sends = 2 /\ raws = 1
    /\ total = 5000
    /\ nodes[2].advs = 1 /\ nodes[2].reported = 5000
    /\ nodes[2].unaccounted = 0
    /\ thr[1].pc = "send" /\ thr[1].mutb /\ thr[1].node = 2
    /\ thr[1].delta = 2500
    /\ issued = 7500

\* the step drops node n
Dropped(n) == n \in Nodes /\ nodes[n].alive /\ ~nodes'[n].alive

\* C13: a drop changes nothing but the dropped node: the total, the version
\* (so every reader's changed flag), the readers and the other nodes stay as
\* they are; a node that is left can still advance the total; and when no
\* node is left a reader can still read, and reads the last total.
C13_DropFrame ==
    /\ [][
          /\ \A n \in Nodes :
                Dropped(n) =>
                    /\ total' = total
                    /\ version' = version
                    /\ readers' = readers
                    /\ Len(nodes') = Len(nodes)
                    /\ \A m \in Nodes \ {n} : nodes'[m] = nodes[m]
                    /\ UNCHANGED <<lock, thr, failed, calls, applied>>
          /\ \A i \in Readers :
                (Alive = {} /\ readers'[i] # readers[i]) =>
                    /\ readers'[i].value = total
                    /\ readers'[i].has_changed = has_changed(readers[i])
                    /\ total' = total
          ]_vars
    /\ [](\A m \in Nodes :
            (/\ Running /\ Idle /\ sends < MaxSends /\ Budget(2)
             /\ nodes[m].alive
             /\ \E n \in Nodes : ~nodes[n].alive)
              => ENABLED (\E t \in Threads : advance_raw(t, m, 2)))
    /\ []((Running /\ Idle /\ Alive = {}) =>
            \A i \in Readers :
                \/ ENABLED <<borrow_and_update(i)>>_vars
                \/ readers[i].value = total)

\* the root and its child are dropped after an add that the reader, which
\* read 0 before it, has not yet read
C13_Witness ==
    /\ Running /\ Idle
    /\ Len(nodes) = 2 /\ Alive = {}
    /\ total = 2
    /\ \E i \in Readers :
          /\ readers[i].reads = 1 /\ readers[i].value = 0
          /\ readers[i].missed = 1
          /\ has_changed(readers[i])
          /\ ENABLED <<borrow_and_update(i)>>_vars

\* the step has added a node with this allocation, defaulted internal_max
\* and unaccounted, and has changed nothing else
ChildOf(n, allocation) ==
    LET c == Len(nodes')
    IN  /\ c = Len(nodes) + 1
        /\ nodes'[c].alive
        /\ nodes'[c].parent = n
        /\ nodes'[c].allocation = allocation
        /\ nodes'[c].internal = Default
        /\ nodes'[c].unaccounted = Default
        /\ \A m \in Nodes : nodes'[m] = nodes[m]
        /\ total' = total
        /\ version' = version
        /\ readers' = readers
        /\ failed' = failed

\* q is x / d as the integers of Rust divide: truncated toward zero
Truncated(q, x, d) ==
    LET r == x - q * d
    IN  /\ Abs(r) < Abs(d)
        /\ r = 0 \/ ((r < 0) = (x < 0))

\* C14: allocate(a) adds a node with allocation a, allocate_fraction(d) with
\* d # 0 one with allocation parent.allocation / d truncated toward zero; the
\* child has unaccounted = 0 and the default internal_max whatever the
\* parent's are, the parent, the total and the readers' flags are unchanged,
\* and the child's adds go to the same total.
C14_Allocate ==
    [][ /\ \A n \in Nodes :
              /\ \A a \in Allocs : allocate(n, a) => ChildOf(n, a)
              /\ \A f \in Fractions \ {0}, K \in ChildTypes :
                    allocate_fraction(n, f, K) =>
                        /\ ChildOf(n, nodes'[Len(nodes')].allocation)
                        /\ Truncated(nodes'[Len(nodes')].allocation,
                                     nodes[n].allocation, f)
        /\ Len(nodes') > Len(nodes) =>
              \E n \in Nodes :
                  \/ \E a \in Allocs : allocate(n, a)
                  \/ \E f \in Fractions, K \in ChildTypes :
                        allocate_fraction(n, f, K)
        /\ \A t \in Threads :
              (/\ thr[t].pc = "locked" /\ thr'[t].pc = "idle"
               /\ nodes[thr[t].node].parent # 0) =>
                  total' = total + thr[t].delta
      ]_vars

\* allocate_fraction(-2) on a root of allocation 5 that has its internal
\* maximum set and a remainder carried gave a child of allocation -2 with
\* neither; the child's raw advance is being added to the root's total
C14_Witness ==
    /\ Len(nodes) = 2
    /\ nodes[1].alive /\ nodes[2].alive
    /\ nodes[1].allocation = 5 /\ nodes[1].internal = 4
    /\ nodes[1].unaccounted = 2
    /\ nodes[2].parent = 1 /\ nodes[2].frac = -2
    /\ nodes[2].allocation = -2
    /\ nodes[2].internal = Default /\ nodes[2].unaccounted = Default
    /\ total = 2
    /\ thr[1].pc = "locked" /\ thr[1].node = 2 /\ thr[1].delta = 2

\* C15: an advance (or advance_mul) of a node writes that node's unaccounted
\* and hands one delta to the total, nothing else: its allocation and
\* internal_max and all fields of every other node stay, the add that follows
\* writes no node, and no operation at all changes the allocation of a node.
C15_AdvanceFrame ==
    [][ /\ \A n \in Nodes :
              Advanced(n) =>
                  /\ nodes'[n].allocation = nodes[n].allocation
                  /\ nodes'[n].internal = nodes[n].internal
                  /\ nodes'[n].ity = nodes[n].ity
                  /\ Len(nodes') = Len(nodes)
                  /\ \A m \in Nodes \ {n} : nodes'[m] = nodes[m]
                  /\ UNCHANGED <<total, version, readers, failed>>
        /\ \A t \in Threads :
              (thr[t].pc # "idle" /\ thr'[t] # thr[t]) =>
                  /\ nodes' = nodes
                  /\ thr'[t].pc = "idle" => total' = total + thr[t].delta
        /\ \A n \in Nodes :
              (nodes[n].alive /\ nodes'[n].alive) =>
                  nodes'[n].allocation = nodes[n].allocation
      ]_vars

\* the root (allocation 5, internal_max 4) carries the remainder 2 of its
\* advance; its child (allocation 6, internal_max 10000) has then advanced
\* by 2, which left the child 12 and the root what it had
C15_Witness ==
    /\ Len(nodes) = 2
    /\ nodes[1].alive /\ nodes[2].alive /\ nodes[2].parent = 1
    /\ nodes[1].allocation = 5 /\ nodes[1].internal = 4
    /\ nodes[1].advs = 1 /\ nodes[1].unaccounted = 2
    /\ nodes[2].allocation = 6 /\ nodes[2].internal = 10000
    /\ nodes[2].advs = 1 /\ nodes[2].unaccounted = 12
    /\ total = 2
    /\ thr[1].pc = "send" /\ thr[1].mutb /\ thr[1].node = 2
    /\ thr[1].delta = 0

\* the two outcomes agree: both are a delta and a remainder, and the same,
\* or both are a division by zero, or both leave the integer type
SameOutcome(a, m) ==
    /\ (a.kind = "ok") = (m.kind = "ok")
    /\ (a.kind = "overflow") = (m.kind = "overflow")
    /\ (a.kind = "advance: division by zero")
          = (m.kind = "advance_mul: division by zero")
    /\ a.delta = m.delta
    /\ a.rest = m.rest

\* C16: on a node whose internal type is the absolute type (the conversions
\* of advance are then lossless, and advance_mul is defined), advance(p) and
\* advance_mul(p) compute the same delta and the same remainder from every
\* state that any sequence of calls of either reaches, and a step that is a
\* successful call of the one is a successful call of the other.
C16_AdvanceMulSame ==
    /\ [](\A n \in Nodes, p \in Progs :
            (nodes[n].alive /\ nodes[n].ity = TType) =>
                SameOutcome(advance_outcome(nodes[n], p),
                            advance_mul_outcome(nodes[n], p)))
    /\ [][ \A t \in Threads, n \in Nodes, p \in Progs :
              (nodes[n].alive /\ nodes[n].ity = TType /\ failed' = NoFailure)
                  => (advance(t, n, p) <=> advance_mul(t, n, p))
          ]_vars

\* a node of the absolute type carries a remainder after two calls, the
\* second of which folded in the remainder of the first, and both operations
\* would now push the same delta
C16_Witness ==
    \E n \in Nodes :
        /\ Running /\ Idle
        /\ nodes[n].alive /\ nodes[n].ity = TType
        /\ nodes[n].allocation = 6 /\ nodes[n].internal = 10000
        /\ nodes[n].advs = 2 /\ nodes[n].reported = 4
        /\ nodes[n].unaccounted = 84
        /\ advance_mul_outcome(nodes[n], 5000).kind = "ok"
        /\ advance_mul_outcome(nodes[n], 5000).delta = 3
        /\ advance_outcome(nodes[n], 5000).delta = 3
        /\ advance_outcome(nodes[n], 5000).rest = 504

\* the increment given to the advance that the step performs on node n
StepProgress(n) == nodes'[n].reported - nodes[n].reported

\* what the advance of the step computes before it divides
StepScaled(n) ==
    (StepProgress(n) + nodes[n].unaccounted) * nodes[n].allocation

\* the step is set_internal(m) on node n and writes internal_max alone
OnlyInternal(n, m) ==
    /\ nodes'[n].internal = m
    /\ nodes'[n].unaccounted = nodes[n].unaccounted
    /\ nodes'[n].allocation = nodes[n].allocation
    /\ nodes'[n].ity = nodes[n].ity
    /\ nodes'[n].alive
    /\ Len(nodes') = Len(nodes)
    /\ \A o \in Nodes \ {n} : nodes'[o] = nodes[o]
    /\ UNCHANGED <<total, version, readers, lock, thr, failed, calls, applied>>

AdvanceFailures ==
    { "advance: allocation does not convert",
      "advance: division by zero",
      "advance: delta does not convert",
      "advance_mul: division by zero" }

\* C18: when advance or advance_mul fails (internal_max is 0, the allocation
\* does not convert into the internal type, or the delta does not convert
\* into the absolute type) nothing has been written: every node, its
\* unaccounted included, the total, the version (so no reader sees a change)
\* and the readers are as before the call, and no add was started.
C18_FailsBeforeWrite ==
    /\ [][ (failed = NoFailure /\ failed'.cause \in AdvanceFailures) =>
              /\ Explained'
              /\ nodes' = nodes
              /\ total' = total
              /\ version' = version
              /\ readers' = readers
              /\ UNCHANGED <<lock, thr, calls, applied>>
          ]_vars
    /\ [](failed.cause \in AdvanceFailures =>
            \A i \in Readers :
                readers[i].missed = 0 => ~has_changed(readers[i]))

\* the child (an i32 node of allocation 10000 and internal_max 4) pushed 5000
\* with advance(2), a reader read that, and advance(5000), whose delta
\* 12502500 is no i16, has failed: the total, the remainder and the reader's
\* flag are what they were
C18_Witness ==
    /\ failed.cause = "advance: delta does not convert"
    /\ failed.node = 2 /\ failed.arg = 5000
    /\ nodes[2].ity = "i32" /\ nodes[2].allocation = 10000
    /\ nodes[2].internal = 4
    /\ nodes[2].advs = 1 /\ nodes[2].reported = 2
    /\ nodes[2].pushed = 5000 /\ nodes[2].unaccounted = 0
    /\ total = 5000 /\ sends = 1 /\ Idle
    /\ \E i \in Readers :
          /\ readers[i].reads >= 1 /\ readers[i].value = 5000
          /\ readers[i].missed = 0 /\ ~has_changed(readers[i])

\* C19: a successful advance or advance_mul with internal_max M > 0 and a
\* non-negative increment, remainder and allocation leaves 0 <= unaccounted
\* < M for the M of that call; unaccounted is 0 on a node that has not
\* advanced, in particular on a new one, and only advance and advance_mul
\* change it.
C19_RemainderRange ==
    /\ [][
          /\ \A n \in Nodes :
                (/\ Advanced(n)
                 /\ nodes[n].internal > 0
                 /\ StepProgress(n) >= 0
                 /\ nodes[n].unaccounted >= 0
                 /\ nodes[n].allocation >= 0) =>
                    /\ 0 <= nodes'[n].unaccounted
                    /\ nodes'[n].unaccounted < nodes[n].internal
          /\ \A n \in Nodes :
                (/\ nodes[n].alive /\ nodes'[n].alive
                 /\ nodes'[n].unaccounted # nodes[n].unaccounted) =>
                    Advanced(n)
          /\ Len(nodes') > Len(nodes) =>
                nodes'[Len(nodes')].unaccounted = Default
          ]_vars
    /\ [](\A n \in Nodes :
            /\ nodes[n].advs = 0 => nodes[n].unaccounted = Default
            /\ (/\ nodes[n].alive /\ nodes[n].nonneg /\ nodes[n].advs >= 1
                /\ nodes[n].allocation >= 0 /\ nodes[n].fixedM) =>
                    /\ 0 <= nodes[n].unaccounted
                    /\ nodes[n].unaccounted < nodes[n].internal)

\* a child of allocation 6 and internal_max 10000 advanced by 2 and by 5000
\* and carries 72; the root, which never advanced, carries 0
C19_Witness ==
    /\ Len(nodes) = 2 /\ nodes[1].alive /\ nodes[2].alive
    /\ nodes[1].advs = 0 /\ nodes[1].unaccounted = 0
    /\ nodes[2].allocation = 6 /\ nodes[2].internal = 10000
    /\ nodes[2].nonneg /\ nodes[2].fixedM
    /\ nodes[2].advs = 2 /\ nodes[2].reported = 5002
    /\ nodes[2].pushed = 3 /\ nodes[2].unaccounted = 72

\* every allocation, internal maximum, increment and raw delta of the
\* concurrent callers is non-negative
NonNegativeInputs ==
    /\ \A a \in ConcRootAllocs \cup ConcAllocs : a >= 0
    /\ \A f \in ConcFractions : f > 0
    /\ \A m \in ConcInternals : m > 0
    /\ \A p \in ConcProgs \cup ConcRaws : p >= 0

\* C20: with non-negative allocations, internal maxima, increments and raw
\* deltas, in every interleaving of the operations of concurrent callers:
\* the deltas and the remainders are non-negative, no step decreases the
\* total, and no read of a reader returns less than its read before.
C20_Monotone ==
    /\ NonNegativeInputs
    /\ [][ /\ total' >= total
           /\ issued' >= issued
           /\ \A n \in Nodes :
                 (nodes[n].alive /\ nodes'[n].alive) =>
                     /\ nodes'[n].unaccounted >= 0
                     /\ nodes'[n].pushed >= nodes[n].pushed
           /\ \A i \in Readers :
                 /\ readers'[i].value >= readers[i].value
                 /\ readers'[i].value <= total'
          ]_vars

\* the adds of two threads overlapped; the reader read 2 between them and 4
\* after them
C20_Witness ==
    /\ contended /\ Idle /\ sends = ConcSends
    /\ total = 4
    /\ \E i \in Readers :
          /\ readers[i].reads = 2
          /\ readers[i].prev = 2 /\ readers[i].covered = 1
          /\ readers[i].value = 4

=============================================================================
